---- MODULE Spec2Model ----
(***************************************************************************)
(* Model of .github/actions/replicate/replicate.ts: the action that        *)
(* mirrors a bounty issue of the original repository into the internal     *)
(* repository.  Strings are sequences of tokens, so that template          *)
(* formatting is concatenation and String.includes is a search for a       *)
(* contiguous sub-sequence.                                                *)
(***************************************************************************)
EXTENDS Naturals, Sequences, FiniteSets

\* internal: the issues of the internal repository, internal[n] being issue n
\* external: the comments posted on issues of the original repository
\* runs: the local state of each run of the action
\* started: the number of runs started so far
\* unavailable: the listing of a duplicate check was unavailable in some run
VARIABLES internal, external, runs, started, unavailable

vars == <<internal, external, runs, started, unavailable>>

(***************************************************************************)
(* Bounds                                                                  *)
(***************************************************************************)
\* number of runs of the action in one behaviour
MaxRuns == 2
\* number of labels of an issue given to the classifier alone
MaxLabels == 3
\* number of comments on the original repository when the notifier is run alone
MaxAcks == 2

(***************************************************************************)
(* JavaScript values                                                       *)
(***************************************************************************)
\* `let internal_ref: number | undefined = undefined`; issue numbers are >= 1
undefined == 0

JsString(s) == [t |-> "string", v |-> s]
JsTrue == [t |-> "boolean", v |-> "true"]
JsFalse == [t |-> "boolean", v |-> "false"]

\* ToBoolean: the empty string and false are falsy
JsTruthy(x) == IF x.t = "string" THEN x.v # "" ELSE x.v = "true"

\* the default `|| true` left out
JsOr_Left(a, b) == a

\* a && b written for a || b
JsOr_And(a, b) == IF JsTruthy(a) THEN b ELSE a

\* a || b
JsOr(a, b) == IF JsTruthy(a) THEN a ELSE b

\* String.prototype.includes on token sequences
Includes(s, t) ==
    \E i \in 0..Len(s) :
        /\ i + Len(t) <= Len(s)
        /\ \A j \in 1..Len(t) : s[i + j] = t[j]

(***************************************************************************)
(* Program constants                                                       *)
(***************************************************************************)
BOUNTY_LABELS == <<"All For One", "The Bug Slayer">>
COMMENT_TASK_LIST == "## Task List"
COMMENT_SCORING == "## Scoring"
COMMENT_FIRST_SUBMISSION == "## :tada: First submission for this user :tada:"

\* Array.prototype.includes on BOUNTY_LABELS
IsBountyLabel(name) == \E k \in 1..Len(BOUNTY_LABELS) : BOUNTY_LABELS[k] = name

(***************************************************************************)
(* Inputs: webhook payloads, action inputs, environment                    *)
(***************************************************************************)
IssuesUrl == "https://github.com/o/r/issues/"
U1 == <<IssuesUrl, "1">>
U12 == <<IssuesUrl, "1", "2">>
Urls == {U1, U12}
Logins == {"alice", "bob"}
LabelSeqs == {<<"All For One", "bug">>, <<"enhancement">>}

\* well-formed payloads: issue, user, html_url and repository present
FullPayloads ==
    {[hasIssue |-> TRUE, hasUser |-> TRUE, html_url |-> u, title |-> <<"Heap overflow">>,
      body |-> <<"details">>, login |-> l, labels |-> ls, number |-> 7,
      hasRepository |-> TRUE] : u \in Urls, l \in Logins, ls \in LabelSeqs}

BasePayload ==
    [hasIssue |-> TRUE, hasUser |-> TRUE, html_url |-> U1, title |-> <<"Heap overflow">>,
     body |-> <<"details">>, login |-> "alice", labels |-> <<"All For One", "bug">>,
     number |-> 7, hasRepository |-> TRUE]

\* payloads with one part missing
PartialPayloads ==
    {[BasePayload EXCEPT !.hasIssue = FALSE, !.number = 0],
     [BasePayload EXCEPT !.hasUser = FALSE],
     [BasePayload EXCEPT !.html_url = <<>>],
     [BasePayload EXCEPT !.body = <<>>],
     [BasePayload EXCEPT !.number = 0],
     [BasePayload EXCEPT !.hasRepository = FALSE]}

Payloads == FullPayloads \cup PartialPayloads

\* core.getInput('existingIssue'): '' when the input is not set
ExistingIssueInputs == {"", "true", "false"}

Procs == {1, 2}
\* the slot of the run in progress when runs do not overlap
Main == 1

(***************************************************************************)
(* generateInternalIssueContentFromPayload                                 *)
(***************************************************************************)
\* bountyType overwritten by every bounty label: the last one wins
ScanLabels_LastWins(labels, i, bountyIssue, bountyType) ==
    LET hits == {k \in i..Len(labels) : IsBountyLabel(labels[k])}
    IN IF hits = {} THEN [bountyIssue |-> bountyIssue, bountyType |-> bountyType]
       ELSE [bountyIssue |-> TRUE,
             bountyType |-> labels[CHOOSE k \in hits : \A m \in hits : m <= k]]

RECURSIVE ScanLabels(_, _, _, _)
\* the forEach over issue.labels: bountyIssue and bountyType after label i..
ScanLabels(labels, i, bountyIssue, bountyType) ==
    IF i > Len(labels) THEN [bountyIssue |-> bountyIssue, bountyType |-> bountyType]
    ELSE IF ~bountyIssue
         THEN LET hit == IsBountyLabel(labels[i])
              IN ScanLabels(labels, i + 1, hit, IF hit THEN labels[i] ELSE bountyType)
         ELSE ScanLabels(labels, i + 1, bountyIssue, bountyType)

NoIssue == [defined |-> FALSE, title |-> <<"none">>, body |-> <<"none">>, labels |-> <<>>]

\* without the validity test of lines 47-50
generateInternalIssueContentFromPayload_NoValidity(payload) ==
    LET scan == ScanLabels(payload.labels, 1, FALSE, "")
    IN IF ~scan.bountyIssue
       THEN NoIssue
       ELSE [defined |-> TRUE,
             title |-> <<"[", scan.bountyType, "] ">> \o payload.title,
             body |-> <<"Original external [issue](">> \o payload.html_url
                      \o <<")\n\nSumitted by [", payload.login, "](",
                           "https://github.com/", payload.login, ")\n\n">>
                      \o payload.body,
             labels |-> payload.labels]

\* without the return of lines 62-65
generateInternalIssueContentFromPayload_NoBountyTest(payload) ==
    IF ~payload.hasIssue \/ ~payload.hasUser \/ payload.html_url = <<>>
    THEN NoIssue
    ELSE LET scan == ScanLabels(payload.labels, 1, FALSE, "")
         IN [defined |-> TRUE,
             title |-> <<"[", scan.bountyType, "] ">> \o payload.title,
             body |-> <<"Original external [issue](">> \o payload.html_url
                      \o <<")\n\nSumitted by [", payload.login, "](",
                           "https://github.com/", payload.login, ")\n\n">>
                      \o payload.body,
             labels |-> payload.labels]

generateInternalIssueContentFromPayload(payload) ==
    IF ~payload.hasIssue \/ ~payload.hasUser \/ payload.html_url = <<>>
    THEN NoIssue
    ELSE LET scan == ScanLabels(payload.labels, 1, FALSE, "")
         IN IF ~scan.bountyIssue
            THEN NoIssue
            ELSE [defined |-> TRUE,
                  title |-> <<"[", scan.bountyType, "] ">> \o payload.title,
                  body |-> <<"Original external [issue](">> \o payload.html_url
                           \o <<")\n\nSumitted by [", payload.login, "](",
                                "https://github.com/", payload.login, ")\n\n">>
                           \o payload.body,
                  labels |-> payload.labels]

(***************************************************************************)
(* ./issues (not part of the sources)                                      *)
(***************************************************************************)
\* getIssueList: undefined (unavailable) or the issues of the repository
Unavailable == [avail |-> FALSE, list |-> <<>>]
getIssueList(repoIssues, ok) == IF ok THEN [avail |-> TRUE, list |-> repoIssues] ELSE Unavailable

\* reference of the first issue whose body contains the url, or undefined
internalIssueAlreadyCreated(url, issues) ==
    LET hits == {i \in 1..Len(issues) : Includes(issues[i].body, url)}
    IN IF hits = {} THEN undefined
       ELSE issues[CHOOSE i \in hits : \A k \in hits : i <= k].number

\* allSubmissions is undefined or a listing of authors
isUserAlreadyParticipant(login, allSubmissions) ==
    allSubmissions.avail /\ login \in allSubmissions.authors

(***************************************************************************)
(* State                                                                   *)
(***************************************************************************)
IdleRun ==
    [pc |-> "idle", payload |-> BasePayload, existingIssue |-> JsTrue,
     intToken |-> FALSE, token |-> FALSE, internalIssue |-> NoIssue,
     duplicate |-> FALSE, internal_ref |-> undefined, calls |-> <<>>,
     allSubmissions |-> [avail |-> FALSE, authors |-> {}],
     internalAtStart |-> <<>>, externalAtStart |-> <<>>]

Init ==
    /\ internal = <<>>
    /\ external = <<>>
    /\ runs = [r \in Procs |-> IdleRun]
    /\ started = 0
    /\ unavailable = FALSE

Call(op, ok) == [op |-> op, ok |-> ok]

Active(r) == runs[r].pc \notin {"idle", "done"}

(***************************************************************************)
(* run, lines 187-194: classify, read the input, decide on the check       *)
(***************************************************************************)
\* the run of slot r begins on a payload, an input and an environment
Begin(r, payload, input, intToken, token) ==
    LET internalIssue == generateInternalIssueContentFromPayload(payload)
        existingIssue == JsOr(JsString(input), JsTrue)
    IN /\ runs' = [runs EXCEPT ![r] =
              [IdleRun EXCEPT
                  !.pc = IF ~internalIssue.defined THEN "done"
                         ELSE IF JsTruthy(existingIssue) THEN "checkDuplicates"
                         ELSE "createInternalIssue",
                  !.payload = payload,
                  !.existingIssue = existingIssue,
                  !.intToken = intToken,
                  !.token = token,
                  !.internalIssue = internalIssue,
                  !.internalAtStart = internal,
                  !.externalAtStart = external]]
       /\ started' = started + 1
       /\ UNCHANGED <<internal, external, unavailable>>

Start(r) ==
    /\ ~Active(r)
    /\ started < MaxRuns
    /\ \E payload \in Payloads, input \in ExistingIssueInputs, intToken \in BOOLEAN,
          token \in BOOLEAN :
         Begin(r, payload, input, intToken, token)

(***************************************************************************)
(* checkDuplicates, lines 161-177, and the return of line 194              *)
(***************************************************************************)
\* without the return of lines 171-174
checkDuplicates_IgnoresRef(payload, internalIssues) ==
    IF ~internalIssues.avail THEN TRUE ELSE FALSE

\* an unavailable listing taken for an empty one
checkDuplicates_AssumesNew(payload, internalIssues) ==
    IF ~internalIssues.avail THEN FALSE
    ELSE internalIssueAlreadyCreated(payload.html_url, internalIssues.list) # undefined

\* lines 166-176: the value checkDuplicates returns for a listing
checkDuplicates(payload, internalIssues) ==
    IF ~internalIssues.avail THEN TRUE
    ELSE internalIssueAlreadyCreated(payload.html_url, internalIssues.list) # undefined

CheckDuplicates(r) ==
    /\ runs[r].pc = "checkDuplicates"
    /\ \E ok \in BOOLEAN :
         LET internalIssues == getIssueList(internal, ok)
         IN /\ runs' = [runs EXCEPT
                   ![r].calls = Append(@, Call("list.internal", ok)),
                   ![r].duplicate = checkDuplicates(runs[r].payload, internalIssues),
                   ![r].pc = IF checkDuplicates(runs[r].payload, internalIssues)
                             THEN "done" ELSE "createInternalIssue"]
            /\ unavailable' = (unavailable \/ ~ok)
    /\ UNCHANGED <<internal, external, started>>

(***************************************************************************)
(* createInternalIssue, lines 79-131                                       *)
(***************************************************************************)
\* the statements inside try { } of lines 88-127
TryBlock == {"createInternalIssue", "commentTask", "commentScoring",
             "isFirstSubmission", "commentFirst"}

\* a failure of issues.create caught on its own, the comments still posted
OnThrow_Continues(pc) ==
    IF pc = "createInternalIssue" THEN "commentTask"
    ELSE IF pc \in TryBlock THEN "return" ELSE "rejected"

\* without the try/catch of lines 88 and 127
OnThrow_Propagates(pc) == "rejected"

\* where control goes when the call made at pc throws: the catch of line 127
\* falls through to `return internal_ref`; elsewhere the promise of run rejects
OnThrow(pc) == IF pc \in TryBlock THEN "return" ELSE "rejected"

\* the scoring comment posted before the task list
Sequel_Swapped(pc) ==
    CASE pc = "createInternalIssue" -> "commentScoring"
      [] pc = "commentScoring" -> "commentTask"
      [] pc = "commentTask" -> "isFirstSubmission"
      [] pc = "commentFirst" -> "return"

\* the statement that follows a successful call of the try block
Sequel(pc) ==
    CASE pc = "createInternalIssue" -> "commentTask"
      [] pc = "commentTask" -> "commentScoring"
      [] pc = "commentScoring" -> "isFirstSubmission"
      [] pc = "commentFirst" -> "return"

\* the guard of line 84 inverted
NoValidToken_Inverted(internalRepoAccessToken) == internalRepoAccessToken

\* without the guard of lines 84-87
NoValidToken_Never(internalRepoAccessToken) == FALSE

\* line 84: if(!internalRepoAccessToken)
NoValidToken(internalRepoAccessToken) == ~internalRepoAccessToken

\* lines 84-100: the token guard and octokit.issues.create
CreateIssue(r) ==
    /\ runs[r].pc = "createInternalIssue"
    /\ IF NoValidToken(runs[r].intToken)
       THEN /\ runs' = [runs EXCEPT ![r].pc = "return"]
            /\ UNCHANGED internal
       ELSE \E ok \in BOOLEAN :
              IF ok
              THEN LET number == Len(internal) + 1
                   IN /\ internal' = Append(internal,
                              [number |-> number,
                               title |-> runs[r].internalIssue.title,
                               body |-> runs[r].internalIssue.body,
                               labels |-> runs[r].internalIssue.labels,
                               comments |-> <<>>])
                      /\ runs' = [runs EXCEPT
                              ![r].calls = Append(@, Call("issues.create", TRUE)),
                              ![r].internal_ref = number,
                              ![r].pc = Sequel("createInternalIssue")]
              ELSE /\ runs' = [runs EXCEPT
                           ![r].calls = Append(@, Call("issues.create", FALSE)),
                           ![r].pc = OnThrow("createInternalIssue")]
                   /\ UNCHANGED internal
    /\ UNCHANGED <<external, started, unavailable>>

\* octokit.issues.createComment on the issue internal_ref of the internal repo
CreateComment(r, at, op, body) ==
    /\ runs[r].pc = at
    /\ \E ok \in BOOLEAN :
         IF ok
         THEN /\ internal' = [internal EXCEPT
                      ![runs[r].internal_ref].comments = Append(@, body)]
              /\ runs' = [runs EXCEPT
                      ![r].calls = Append(@, Call(op, TRUE)),
                      ![r].pc = Sequel(at)]
         ELSE /\ runs' = [runs EXCEPT
                      ![r].calls = Append(@, Call(op, FALSE)),
                      ![r].pc = OnThrow(at)]
              /\ UNCHANGED internal
    /\ UNCHANGED <<external, started, unavailable>>

\* lines 102-108
CommentTask(r) ==
    CreateComment(r, "commentTask", "comment.task", COMMENT_TASK_LIST)

\* lines 110-116
CommentScoring(r) ==
    CreateComment(r, "commentScoring", "comment.scoring", COMMENT_SCORING)

\* an unavailable listing taken for "not a first submission"
isFirstSubmission_FailSafe(payload, allSubmissions) ==
    /\ payload.hasRepository
    /\ allSubmissions.avail
    /\ payload.login \notin allSubmissions.authors

\* the negation of line 184 left out
isFirstSubmission_NotNegated(payload, allSubmissions) ==
    IF ~payload.hasRepository THEN FALSE
    ELSE isUserAlreadyParticipant(payload.login, allSubmissions)

\* isFirstSubmission, lines 179-185, given what the listing of the payload's
\* repository returned
isFirstSubmission(payload, allSubmissions) ==
    IF ~payload.hasRepository THEN FALSE
    ELSE ~isUserAlreadyParticipant(payload.login, allSubmissions)

\* line 118: the listing of the original repository and the test on it
IsFirstSubmission(r) ==
    /\ runs[r].pc = "isFirstSubmission"
    /\ IF ~runs[r].payload.hasRepository
       THEN runs' = [runs EXCEPT
                ![r].pc = IF isFirstSubmission(runs[r].payload, runs[r].allSubmissions)
                          THEN "commentFirst" ELSE "return"]
       ELSE \E ok \in BOOLEAN, authors \in SUBSET Logins :
              LET allSubmissions == IF ok THEN [avail |-> TRUE, authors |-> authors]
                                    ELSE [avail |-> FALSE, authors |-> {}]
              IN runs' = [runs EXCEPT
                     ![r].calls = Append(@, Call("list.submissions", ok)),
                     ![r].allSubmissions = allSubmissions,
                     ![r].pc = IF isFirstSubmission(runs[r].payload, allSubmissions)
                               THEN "commentFirst" ELSE "return"]
    /\ UNCHANGED <<internal, external, started, unavailable>>

\* lines 119-125
CommentFirst(r) ==
    CreateComment(r, "commentFirst", "comment.first", COMMENT_FIRST_SUBMISSION)

(***************************************************************************)
(* commentOriginalIssue, lines 133-159                                     *)
(***************************************************************************)
\* without the test of external_issue at line 142
CallsOriginal_NoNumberTest(payload, token) == token /\ payload.hasRepository

\* the guards of lines 138-145: is createComment called at all
CallsOriginal(payload, token) ==
    LET external_issue == IF payload.hasIssue THEN payload.number ELSE 0
    IN token /\ payload.hasRepository /\ external_issue > 0

\* the comments of the original repository after the call
commentOriginalIssue(payload, token, internal_issue, ok, comments) ==
    IF CallsOriginal(payload, token) /\ ok
    THEN Append(comments, [issue_number |-> payload.number, ref |-> internal_issue])
    ELSE comments

(***************************************************************************)
(* run, lines 196-203: after createInternalIssue has returned              *)
(***************************************************************************)
Return(r) ==
    /\ runs[r].pc = "return"
    /\ IF runs[r].internal_ref = undefined \/ JsTruthy(runs[r].existingIssue)
       THEN /\ runs' = [runs EXCEPT ![r].pc = "done"]
            /\ UNCHANGED external
       ELSE \E ok \in BOOLEAN :
              /\ external' = commentOriginalIssue(runs[r].payload, runs[r].token,
                                                  runs[r].internal_ref, ok, external)
              /\ runs' = [runs EXCEPT
                      ![r].calls = IF CallsOriginal(runs[r].payload, runs[r].token)
                                   THEN Append(@, Call("comment.original", ok)) ELSE @,
                      ![r].pc = "done"]
    /\ UNCHANGED <<internal, started, unavailable>>

(***************************************************************************)
(* Runs that do not overlap: one run at a time, to completion              *)
(***************************************************************************)
Next ==
    \/ Start(Main)
    \/ CheckDuplicates(Main)
    \/ CreateIssue(Main)
    \/ CommentTask(Main)
    \/ CommentScoring(Main)
    \/ IsFirstSubmission(Main)
    \/ CommentFirst(Main)
    \/ Return(Main)

Spec == Init /\ [][Next]_vars

(***************************************************************************)
(* Vocabulary of the properties                                            *)
(***************************************************************************)
Qualifying(r) == runs[r].internalIssue.defined

Ops(r) == [i \in 1..Len(runs[r].calls) |-> runs[r].calls[i].op]

Made(r, op) == \E i \in 1..Len(runs[r].calls) : runs[r].calls[i].op = op

Succeeded(r, op) ==
    \E i \in 1..Len(runs[r].calls) : runs[r].calls[i] = Call(op, TRUE)

AllCallsSucceeded(r) == \A i \in 1..Len(runs[r].calls) : runs[r].calls[i].ok

InternalWrites == {"issues.create", "comment.task", "comment.scoring", "comment.first"}
Writes == InternalWrites \cup {"comment.original"}

NoWrite(r) == \A i \in 1..Len(runs[r].calls) : runs[r].calls[i].op \notin Writes

\* the run has changed neither repository
NoMutation(r) ==
    /\ NoWrite(r)
    /\ internal = runs[r].internalAtStart
    /\ external = runs[r].externalAtStart

Embeds(issue, url) == Includes(issue.body, url)

\* the url that the body template of line 70 wraps in its link
OriginalLink(body) ==
    LET close == CHOOSE k \in 1..Len(body) :
                     /\ body[k] = ")\n\nSumitted by ["
                     /\ \A j \in 1..(k - 1) : body[j] # ")\n\nSumitted by ["
    IN SubSeq(body, 2, close - 1)

MirrorExistedAtStart(r) ==
    \E i \in 1..Len(runs[r].internalAtStart) :
        Embeds(runs[r].internalAtStart[i], runs[r].payload.html_url)

C2_ExistingMirrorNoWrite ==
    \A r \in Procs :
        (Qualifying(r) /\ MirrorExistedAtStart(r)) => NoMutation(r)

C2_Witness ==
    /\ runs[Main].pc = "done"
    /\ Qualifying(Main)
    /\ MirrorExistedAtStart(Main)
    /\ runs[Main].intToken
    /\ runs[Main].calls = <<Call("list.internal", TRUE)>>

(***************************************************************************)
(* C3                                                                      *)
(***************************************************************************)
\* C3: when the listing of the duplicate check is unavailable the run ends
\* at once: it makes no further call, creates no issue, posts no comment
\* and leaves both repositories as they were.
C3_UnavailableListingSkips ==
    \A r \in Procs :
        Made(r, "list.internal") /\ ~Succeeded(r, "list.internal") =>
            /\ runs[r].pc = "done"
            /\ runs[r].calls = <<Call("list.internal", FALSE)>>
            /\ NoMutation(r)

\* the listing was unavailable although no mirror of the url existed
C3_Witness ==
    /\ runs[Main].pc = "done"
    /\ runs[Main].calls = <<Call("list.internal", FALSE)>>
    /\ runs[Main].intToken
    /\ ~MirrorExistedAtStart(Main)

(***************************************************************************)
(* C4                                                                      *)
(***************************************************************************)
\* C4 as stated: when issues.create or one of the createComment calls of
\* createInternalIssue fails, createInternalIssue returns no reference (and
\* the acknowledgement is not attempted).
C4_FailureReturnsNoReference ==
    \A r \in Procs :
        (/\ runs[r].pc \in {"return", "done"}
         /\ \E i \in 1..Len(runs[r].calls) :
               /\ runs[r].calls[i].op \in InternalWrites
               /\ ~runs[r].calls[i].ok)
        => (runs[r].internal_ref = undefined /\ ~Made(r, "comment.original"))

(***************************************************************************)
(* C5                                                                      *)
(***************************************************************************)
\* C5 as stated: with the existingIssue input not set, a qualifying event
\* without a mirror, both tokens, a repository and a positive issue number,
\* and every call succeeding, the run ends with exactly one more comment on
\* the original issue, which carries the number of the issue this run
\* created.
C5_AcknowledgementPosted ==
    \A r \in Procs :
        (/\ runs[r].pc = "done"
         /\ runs[r].existingIssue = JsTrue
         /\ Qualifying(r)
         /\ ~MirrorExistedAtStart(r)
         /\ runs[r].intToken /\ runs[r].token
         /\ runs[r].payload.hasRepository /\ runs[r].payload.number > 0
         /\ AllCallsSucceeded(r))
        => /\ runs[r].internal_ref > Len(runs[r].internalAtStart)
           /\ external = Append(runs[r].externalAtStart,
                                [issue_number |-> runs[r].payload.number,
                                 ref |-> runs[r].internal_ref])

(***************************************************************************)
(* C6                                                                      *)
(***************************************************************************)
\* the duplicate check ran with the listing available and found nothing
CheckedNoDuplicate(r) ==
    /\ Succeeded(r, "list.internal")
    /\ ~MirrorExistedAtStart(r)

\* the caller's configuration says that the issue pre-exists
SaysPreExists(r) == runs[r].pc # "idle" /\ runs[r].existingIssue = JsString("true")

\* C6 as stated: the acknowledgement is attempted only in runs whose
\* duplicate check was performed and found nothing; and in a run configured
\* with existingIssue = 'true' the duplicate check is not performed and no
\* acknowledgement is posted.
C6_PreExistsSkipsCheck ==
    \A r \in Procs :
        /\ Made(r, "comment.original") => CheckedNoDuplicate(r)
        /\ SaysPreExists(r) =>
              (~Made(r, "list.internal") /\ ~Made(r, "comment.original"))

\* C6 as amended: the acknowledgement is attempted only in runs whose
\* duplicate check was performed and found nothing; and in a run configured
\* with existingIssue = 'true' the duplicate check is performed for every
\* qualifying event, before anything else, and no acknowledgement is posted.
C6_PreExistsStillChecks ==
    \A r \in Procs :
        /\ Made(r, "comment.original") => CheckedNoDuplicate(r)
        /\ SaysPreExists(r) =>
              /\ (Qualifying(r) /\ runs[r].pc # "checkDuplicates")
                    => (runs[r].calls # <<>> /\ runs[r].calls[1].op = "list.internal")
              /\ ~Made(r, "comment.original")
              /\ external = runs[r].externalAtStart

\* a run configured with existingIssue = 'true' has checked, created its
\* issue and ended
C6_Witness ==
    /\ SaysPreExists(Main)
    /\ runs[Main].pc = "done"
    /\ CheckedNoDuplicate(Main)
    /\ Succeeded(Main, "issues.create")
    /\ runs[Main].token

(***************************************************************************)
(* C7                                                                      *)
(***************************************************************************)
NoBountyLabel(payload) ==
    \A i \in 1..Len(payload.labels) :
        payload.labels[i] \notin {"All For One", "The Bug Slayer"}

\* C7: for an event none of whose labels is 'All For One' or 'The Bug
\* Slayer' the classifier returns undefined and the run ends without any
\* call to a repository: no listing, no issue, no comment.
C7_NoBountyLabelNoCall ==
    \A r \in Procs :
        (runs[r].pc # "idle" /\ NoBountyLabel(runs[r].payload)) =>
            /\ ~runs[r].internalIssue.defined
            /\ runs[r].pc = "done"
            /\ runs[r].calls = <<>>
            /\ NoMutation(r)

\* a complete event with the label 'enhancement' only has been handled,
\* with both tokens present
C7_Witness ==
    /\ runs[Main].pc = "done"
    /\ runs[Main].payload.labels = <<"enhancement">>
    /\ runs[Main].payload.hasIssue /\ runs[Main].payload.hasUser
    /\ runs[Main].payload.html_url = U1
    /\ runs[Main].intToken /\ runs[Main].token
    /\ runs[Main].calls = <<>>

(***************************************************************************)
(* C8                                                                      *)
(***************************************************************************)
\* C8: without INT_REPO_TOKEN, a run for a qualifying event that has no
\* mirror creates nothing and posts nothing in either repository, and the
\* promise of run is never rejected.
C8_NoInternalTokenNoMutation ==
    \A r \in Procs :
        (/\ runs[r].pc # "idle"
         /\ ~runs[r].intToken
         /\ Qualifying(r)
         /\ ~MirrorExistedAtStart(r))
        => (NoMutation(r) /\ runs[r].pc # "rejected")

\* such a run has passed the duplicate check, entered createInternalIssue
\* and ended
C8_Witness ==
    /\ runs[Main].pc = "done"
    /\ ~runs[Main].intToken
    /\ runs[Main].token
    /\ Qualifying(Main)
    /\ ~MirrorExistedAtStart(Main)
    /\ runs[Main].calls = <<Call("list.internal", TRUE)>>

(***************************************************************************)
(* C9                                                                      *)
(***************************************************************************)
Rank(op) ==
    CASE op = "issues.create" -> 1
      [] op = "comment.task" -> 2
      [] op = "comment.scoring" -> 3
      [] op = "comment.first" -> 4
      [] op = "comment.original" -> 5

WriteCalls(r) == {i \in 1..Len(runs[r].calls) : runs[r].calls[i].op \in Writes}

\* C9: the writes of a run are made in the order issues.create, task list,
\* scoring, first-submission banner, acknowledgement; a workflow comment is
\* written only after the write before it in this order has succeeded, and
\* the acknowledgement only after the creation has.
C9_WritesInOrder ==
    \A r \in Procs :
        /\ \A i, j \in WriteCalls(r) :
              i < j => Rank(runs[r].calls[i].op) < Rank(runs[r].calls[j].op)
        /\ \A j \in WriteCalls(r) :
              LET k == Rank(runs[r].calls[j].op)
              IN /\ k \in {2, 3, 4} =>
                       \E i \in WriteCalls(r) :
                           /\ i < j
                           /\ Rank(runs[r].calls[i].op) = k - 1
                           /\ runs[r].calls[i].ok
                 /\ k = 5 =>
                       \E i \in WriteCalls(r) :
                           i < j /\ runs[r].calls[i] = Call("issues.create", TRUE)

\* a run has made the creation and the three workflow comments
C9_Witness ==
    /\ runs[Main].pc = "done"
    /\ Ops(Main) = <<"list.internal", "issues.create", "comment.task",
                     "comment.scoring", "list.submissions", "comment.first">>
    /\ AllCallsSucceeded(Main)

(***************************************************************************)
(* C10                                                                     *)
(***************************************************************************)
AllWritesSucceeded(r) ==
    \A i \in WriteCalls(r) : runs[r].calls[i].ok

\* an issue of the list is the mirror of a submission by login
MirroredBy(login, issues) ==
    \E i \in 1..Len(issues) :
        Includes(issues[i].body, <<")\n\nSumitted by [", login, "](">>)

TwoComments == <<COMMENT_TASK_LIST, COMMENT_SCORING>>
ThreeComments == <<COMMENT_TASK_LIST, COMMENT_SCORING, COMMENT_FIRST_SUBMISSION>>

\* C10 as stated: when every call succeeds, the new mirror has the banner
\* if and only if no mirror of a submission by the same submitter existed;
\* with an empty internal repository it has exactly the three comments, and
\* when the submitter is in the submissions listing exactly the two.
C10_BannerIffNothingMirrored ==
    \A r \in Procs :
        (runs[r].pc = "done" /\ Succeeded(r, "issues.create") /\ AllCallsSucceeded(r)) =>
            LET mine == internal[runs[r].internal_ref].comments
            IN /\ (mine = ThreeComments)
                     <=> ~MirroredBy(runs[r].payload.login, runs[r].internalAtStart)
               /\ runs[r].internalAtStart = <<>> => mine = ThreeComments
               /\ runs[r].payload.login \in runs[r].allSubmissions.authors
                     => mine = TwoComments

\* C10 as amended: when every write succeeds, the new mirror has the banner
\* if and only if the event has a repository and the listing of that
\* repository's issues is unavailable or has no issue by the submitter,
\* whatever the internal repository holds: it then has exactly the three
\* comments, and otherwise (as when the submitter is in the listing) the two.
C10_BannerIffNotInListing ==
    \A r \in Procs :
        (runs[r].pc = "done" /\ Succeeded(r, "issues.create") /\ AllWritesSucceeded(r)) =>
            LET mine == internal[runs[r].internal_ref].comments
                banner == /\ runs[r].payload.hasRepository
                          /\ \/ ~runs[r].allSubmissions.avail
                             \/ runs[r].payload.login \notin runs[r].allSubmissions.authors
            IN mine = IF banner THEN ThreeComments ELSE TwoComments

\* a second mirror, for a submitter whose first submission is mirrored but
\* is not in the listing of the original repository, has got the banner
C10_Witness ==
    /\ runs[Main].pc = "done"
    /\ Succeeded(Main, "issues.create")
    /\ AllCallsSucceeded(Main)
    /\ MirroredBy(runs[Main].payload.login, runs[Main].internalAtStart)
    /\ runs[Main].payload.login \notin runs[Main].allSubmissions.authors
    /\ internal[runs[Main].internal_ref].comments = ThreeComments

(***************************************************************************)
(* C11                                                                     *)
(***************************************************************************)
\* C11: when the listing of the submissions is unavailable, isFirstSubmission
\* returns true and the banner comment is the next call, present on the
\* mirror once that call succeeds; when the listing of the duplicate check
\* is unavailable, the run ends without creating an issue.
C11_OppositePolicies ==
    \A r \in Procs :
        /\ (Made(r, "list.submissions") /\ ~Succeeded(r, "list.submissions")) =>
              /\ isFirstSubmission(runs[r].payload, runs[r].allSubmissions)
              /\ runs[r].pc = "commentFirst" \/ Made(r, "comment.first")
              /\ Succeeded(r, "comment.first") =>
                    internal[runs[r].internal_ref].comments = ThreeComments
        /\ (Made(r, "list.internal") /\ ~Succeeded(r, "list.internal")) =>
              (runs[r].pc = "done" /\ ~Made(r, "issues.create"))

\* the banner has been posted after an unavailable listing of submissions
C11_Witness ==
    /\ runs[Main].pc = "done"
    /\ Made(Main, "list.submissions")
    /\ ~Succeeded(Main, "list.submissions")
    /\ Succeeded(Main, "comment.first")
    /\ internal[runs[Main].internal_ref].comments = ThreeComments

(***************************************************************************)
(* The classifier alone, on every label sequence up to MaxLabels           *)
(***************************************************************************)
LabelNames == {"All For One", "The Bug Slayer", "bug", "enhancement"}

ClassifierPayloads ==
    {[BasePayload EXCEPT !.labels = ls, !.title = t] :
        ls \in UNION {[1..n -> LabelNames] : n \in 0..MaxLabels},
        t \in {<<"Heap overflow">>, <<"XSS">>}}

\* line 188 on its own
Classify(r) ==
    /\ \E payload \in ClassifierPayloads :
         runs' = [runs EXCEPT ![r] =
             [IdleRun EXCEPT
                 !.pc = "classified",
                 !.payload = payload,
                 !.internalIssue = generateInternalIssueContentFromPayload(payload)]]
    /\ UNCHANGED <<internal, external, started, unavailable>>

SpecClassify == Init /\ [][Classify(Main)]_vars

(***************************************************************************)
(* C12                                                                     *)
(***************************************************************************)
BountyPositions(labels) ==
    {i \in 1..Len(labels) : labels[i] \in {"All For One", "The Bug Slayer"}}

\* C12: when the labels of an event hold a bounty label, the title of the
\* draft is '[' category '] ' title, the category being the bounty label at
\* the lowest position, and the labels of the draft are the labels of the
\* event in their order.
C12_FirstBountyLabelWins ==
    \A r \in Procs :
        LET labels == runs[r].payload.labels
            hits == BountyPositions(labels)
        IN (runs[r].pc = "classified" /\ hits # {}) =>
              LET first == CHOOSE i \in hits : \A k \in hits : i <= k
              IN /\ runs[r].internalIssue.defined
                 /\ runs[r].internalIssue.title
                       = <<"[", labels[first], "] ">> \o runs[r].payload.title
                 /\ runs[r].internalIssue.labels = labels

\* a bounty label after another label and before the other bounty label
C12_Witness ==
    /\ runs[Main].pc = "classified"
    /\ runs[Main].payload.labels = <<"bug", "The Bug Slayer", "All For One">>
    /\ runs[Main].internalIssue.title = <<"[", "The Bug Slayer", "] ", "XSS">>

(***************************************************************************)
(* C13                                                                     *)
(***************************************************************************)
Incomplete(payload) ==
    ~payload.hasIssue \/ ~payload.hasUser \/ payload.html_url = <<>>

\* C13: for an event without issue, without user or without html_url the
\* classifier returns undefined, bounty label or not, and the run ends
\* without a call: no mirror is created.
C13_IncompleteEventNotApplicable ==
    \A r \in Procs :
        (runs[r].pc # "idle" /\ Incomplete(runs[r].payload)) =>
            /\ ~runs[r].internalIssue.defined
            /\ runs[r].pc = "done"
            /\ runs[r].calls = <<>>
            /\ NoMutation(r)

\* an event with a bounty label and no user has been handled, with both
\* tokens present
C13_Witness ==
    /\ runs[Main].pc = "done"
    /\ ~runs[Main].payload.hasUser
    /\ runs[Main].payload.hasIssue
    /\ BountyPositions(runs[Main].payload.labels) # {}
    /\ runs[Main].intToken /\ runs[Main].token
    /\ runs[Main].calls = <<>>

(***************************************************************************)
(* A run in progress goes on: every awaited call returns or throws         *)
(***************************************************************************)
RunStep(r) ==
    \/ CheckDuplicates(r)
    \/ CreateIssue(r)
    \/ CommentTask(r)
    \/ CommentScoring(r)
    \/ IsFirstSubmission(r)
    \/ CommentFirst(r)
    \/ Return(r)

SpecFair == Init /\ [][Next]_vars /\ WF_vars(RunStep(Main))

(***************************************************************************)
(* C14                                                                     *)
(***************************************************************************)
\* C14: the promise of run is never rejected, whichever calls fail, and
\* every run that has started ends with a normal return.
C14_RunsEndNormally ==
    /\ [](\A r \in Procs : runs[r].pc # "rejected")
    /\ \A r \in Procs : (Active(r) ~> runs[r].pc = "done")

\* a run has ended after a comment call failed on the issue it created
C14_Witness ==
    /\ runs[Main].pc = "done"
    /\ Succeeded(Main, "issues.create")
    /\ Made(Main, "comment.scoring")
    /\ ~Succeeded(Main, "comment.scoring")

(***************************************************************************)
(* Runs that overlap: two runs of the workflow, their calls interleaved    *)
(***************************************************************************)
\* bounty events of one submitter
ConcPayloads ==
    {p \in FullPayloads : p.login = "alice" /\ p.labels = <<"All For One", "bug">>}

StartConc(r) ==
    /\ ~Active(r)
    /\ started < MaxRuns
    /\ \E payload \in ConcPayloads, intToken \in BOOLEAN :
         Begin(r, payload, "", intToken, TRUE)

NextConc == \E r \in Procs : StartConc(r) \/ RunStep(r)

SpecConc == Init /\ [][NextConc]_vars

(***************************************************************************)
(* C15                                                                     *)
(***************************************************************************)
\* the duplicate check of the run returned false
PassedCheck(r) == Made(r, "list.internal") /\ ~runs[r].duplicate

\* the run has ended after a passed check, with the token and no failed call
CompletedAfterCheck(r) ==
    /\ runs[r].pc = "done"
    /\ PassedCheck(r)
    /\ runs[r].intToken
    /\ AllCallsSucceeded(r)

\* C15: under overlapping runs, a run whose duplicate check has passed
\* creates its mirror whatever the internal repository has received since;
\* so two runs for the same url that both pass the check (neither having
\* created yet) leave two distinct mirrors of that url.
C15_BothCreate ==
    \A r \in Procs :
        CompletedAfterCheck(r) =>
            /\ Succeeded(r, "issues.create")
            /\ OriginalLink(internal[runs[r].internal_ref].body) = runs[r].payload.html_url
            /\ \A q \in Procs \ {r} :
                  (CompletedAfterCheck(q)
                   /\ runs[q].payload.html_url = runs[r].payload.html_url)
                  => runs[q].internal_ref # runs[r].internal_ref

\* two mirrors of the same url, made by two runs that both passed the check
C15_Witness ==
    /\ CompletedAfterCheck(1) /\ CompletedAfterCheck(2)
    /\ runs[1].payload.html_url = runs[2].payload.html_url
    /\ Len(internal) = 2
    /\ OriginalLink(internal[1].body) = OriginalLink(internal[2].body)

(***************************************************************************)
(* C16                                                                     *)
(***************************************************************************)
\* the run performs the duplicate check
PerformsCheck(r) == runs[r].pc = "checkDuplicates" \/ Made(r, "list.internal")

\* C16 as stated: the duplicate check depends on the existingIssue input:
\* for a run on a qualifying event there is another value of the input with
\* which line 193, on the same event and the same repositories, decides the
\* other way (skips the check that this run performs, or performs the one
\* it skips).
C16_CheckIsConfigurable ==
    \A r \in Procs :
        (runs[r].pc # "idle" /\ Qualifying(r)) =>
            \E v \in ExistingIssueInputs :
                JsTruthy(JsOr(JsString(v), JsTrue)) # PerformsCheck(r)

(***************************************************************************)
(* commentOriginalIssue alone, on mirrors that have their comments         *)
(***************************************************************************)
\* the issue number n as createInternalIssue leaves it for a payload
Mirror(n, payload, comments) ==
    [number |-> n,
     title |-> generateInternalIssueContentFromPayload(payload).title,
     body |-> generateInternalIssueContentFromPayload(payload).body,
     labels |-> generateInternalIssueContentFromPayload(payload).labels,
     comments |-> comments]

InitNotify ==
    /\ internal = <<Mirror(1, BasePayload, ThreeComments),
                    Mirror(2, [BasePayload EXCEPT !.html_url = U12], TwoComments)>>
    /\ external = <<>>
    /\ runs = [r \in Procs |-> IdleRun]
    /\ started = 0
    /\ unavailable = FALSE

\* a call commentOriginalIssue(payload, internal_issue), lines 133-159
NotifyOriginal(r) ==
    /\ Len(external) < MaxAcks
    /\ \E payload \in Payloads, token \in BOOLEAN, ok \in BOOLEAN,
          internal_issue \in 1..Len(internal) :
         /\ external' = commentOriginalIssue(payload, token, internal_issue, ok, external)
         /\ runs' = [runs EXCEPT ![r] =
                [IdleRun EXCEPT
                    !.pc = "notified",
                    !.payload = payload,
                    !.token = token,
                    !.internal_ref = internal_issue,
                    !.calls = IF CallsOriginal(payload, token)
                              THEN <<Call("comment.original", ok)>> ELSE <<>>,
                    !.internalAtStart = internal,
                    !.externalAtStart = external]]
    /\ UNCHANGED <<internal, started, unavailable>>

SpecNotify == InitNotify /\ [][NotifyOriginal(Main)]_vars

(***************************************************************************)
(* C17                                                                     *)
(***************************************************************************)
\* C17: commentOriginalIssue makes no call when GITHUB_TOKEN is absent,
\* when the event has no repository or when its issue number is absent or
\* not positive; then, and when its call fails, the comments of the
\* original repository are as before; it always returns and never changes
\* the internal repository; a call that succeeds adds the one comment that
\* names the mirror.
C17_NotifierGuards ==
    \A r \in Procs :
        runs[r].pc = "notified" =>
            LET p == runs[r].payload
            IN /\ (~runs[r].token \/ ~p.hasRepository \/ ~p.hasIssue \/ p.number <= 0) =>
                      (runs[r].calls = <<>> /\ external = runs[r].externalAtStart)
               /\ (Made(r, "comment.original") /\ ~Succeeded(r, "comment.original")) =>
                      external = runs[r].externalAtStart
               /\ Succeeded(r, "comment.original") =>
                      external = Append(runs[r].externalAtStart,
                                        [issue_number |-> p.number,
                                         ref |-> runs[r].internal_ref])
               /\ internal = runs[r].internalAtStart

\* called with the token and a repository for an issue number 0
C17_Witness ==
    /\ runs[Main].pc = "notified"
    /\ runs[Main].token
    /\ runs[Main].payload.hasRepository /\ runs[Main].payload.hasIssue
    /\ runs[Main].payload.number = 0
    /\ runs[Main].calls = <<>>
    /\ external = runs[Main].externalAtStart
    /\ internal[1].comments = ThreeComments

(***************************************************************************)
(* C18                                                                     *)
(***************************************************************************)
\* C18: a run calls issues.create only after its own duplicate check, made
\* first, had the listing available and returned false, no issue of the
\* listing containing the url; this for every value of the existingIssue
\* input.
C18_CreateOnlyAfterCheck ==
    \A r \in Procs :
        Made(r, "issues.create") =>
            /\ runs[r].calls[1] = Call("list.internal", TRUE)
            /\ runs[r].calls[2].op = "issues.create"
            /\ ~runs[r].duplicate
            /\ ~MirrorExistedAtStart(r)

\* a run with existingIssue = 'false' has created its issue after the check
C18_Witness ==
    /\ runs[Main].existingIssue = JsString("false")
    /\ Succeeded(Main, "issues.create")
    /\ runs[Main].calls[1] = Call("list.internal", TRUE)
    /\ runs[Main].pc = "done"

(***************************************************************************)
(* C19                                                                     *)
(***************************************************************************)
WorkflowComments == {"comment.task", "comment.scoring", "comment.first"}

\* the run is at, or has made, a workflow comment only after its own
\* issues.create succeeded, and on the issue that call created
CommentsAfterOwnCreation(r) ==
    (\/ runs[r].pc \in {"commentTask", "commentScoring", "isFirstSubmission", "commentFirst"}
     \/ \E j \in 1..Len(runs[r].calls) : runs[r].calls[j].op \in WorkflowComments)
    => /\ Succeeded(r, "issues.create")
       /\ runs[r].internal_ref > Len(runs[r].internalAtStart)
       /\ runs[r].internal_ref <= Len(internal)

\* the issues that existed when the run started are as they were, and a
\* mirror of the url among them makes the check return true
EarlierIssuesUntouched(r) ==
    runs[r].pc # "idle" =>
        /\ Len(internal) >= Len(runs[r].internalAtStart)
        /\ \A n \in 1..Len(runs[r].internalAtStart) : internal[n] = runs[r].internalAtStart[n]
        /\ (Succeeded(r, "list.internal") /\ MirrorExistedAtStart(r)) => runs[r].duplicate

\* a step changes an issue only by a comment of the run that created it
OnlyOwnIssueChanges ==
    \A n \in 1..Len(internal) :
        internal'[n] # internal[n] =>
            \E r \in Procs :
                /\ runs[r].internal_ref = n
                /\ Succeeded(r, "issues.create")
                /\ n > Len(runs[r].internalAtStart)
                /\ runs'[r].calls = Append(runs[r].calls, Call(runs'[r].calls[Len(runs'[r].calls)].op, TRUE))
                /\ runs'[r].calls[Len(runs'[r].calls)].op \in WorkflowComments

\* C19: a run posts workflow comments only on the issue it created in that
\* run, after that creation succeeded; every issue that existed when a run
\* started stays as it was, so that a mirror left without some of its
\* comments is found as a duplicate by later runs for its url and never
\* gets them.
C19_CommentsOnlyOnOwnIssue ==
    /\ [](\A r \in Procs : CommentsAfterOwnCreation(r) /\ EarlierIssuesUntouched(r))
    /\ [][OnlyOwnIssueChanges]_vars

\* a later run for the url of a mirror that has the task list only has
\* found it as a duplicate and ended, the mirror as it was
C19_Witness ==
    /\ started = 2
    /\ runs[Main].pc = "done"
    /\ Len(internal) = 1
    /\ internal[1].comments = <<COMMENT_TASK_LIST>>
    /\ OriginalLink(internal[1].body) = runs[Main].payload.html_url
    /\ runs[Main].calls = <<Call("list.internal", TRUE)>>
    /\ runs[Main].duplicate
    /\ internal = runs[Main].internalAtStart

====
